---- MODULE Spec2Model ----
(***************************************************************************)
(* State-machine model of the LDPC codec: Gallager construction of H,      *)
(* derivation of G by GF(2) elimination, 4-cycle counting, encoding and    *)
(* sum-product decoding.  Arrays keep the 0-based indices of the C code.   *)
(***************************************************************************)
EXTENDS Integers, Sequences, FiniteSets, TLC

\* Largest codeword length explored by the construction pipeline.
MaxN == 6
\* Largest max_iter handed to the decoder.
MaxIter == 2

VARIABLES N, wc, wr, pc, H, perm, bi, sj, X, gj, G, floop, calls,
          inf, code, LLR, max_iter, iter, runs, u, v, ecc_hat, inf_hat,
          parity_ok, E, pyx, li, lb, fileH, fileG, Hin, Gin,
          loop, best_floop, H_best, G_best, H_entry

\* the arguments and loop counters of compute_llr_from_pyx
llrVars == <<E, pyx, li, lb>>

\* H.csv and G.csv, and the arrays init_LDPC fills from them
fileVars == <<fileH, fileG, Hin, Gin>>

\* the search loop of the generator's main
searchVars == <<loop, best_floop, H_best, G_best>>

\* the caller's H as it was when generate_Gmatrix was entered, kept while
\* the call runs
entryVars == <<H_entry>>

vars == <<N, wc, wr, pc, H, perm, bi, sj, X, gj, G, floop, calls,
          inf, code, LLR, max_iter, iter, runs, u, v, ecc_hat, inf_hat,
          parity_ok, llrVars, fileVars, searchVars, entryVars>>

Bit == {0, 1}

\* a value that has not been written yet (freshly malloc'ed / not yet called)
None == <<>>

\* compute_llr_from_pyx has not been called
LlrIdle == E = 0 /\ pyx = None /\ li = 0 /\ lb = 0

\* nothing has been saved or loaded
FileIdle == fileH = None /\ fileG = None /\ Hin = None /\ Gin = None

\* the search loop has not started: best_floop = -1
SearchIdle == loop = 0 /\ best_floop = -1 /\ H_best = None /\ G_best = None

XOR(a, b) == (a + b) % 2

\* int M = (N * wc) / wr
Mof(n, c, r) == (n * c) \div r
M == Mof(N, wc, wr)
K == N - M
\* int block_rows = M / wc
block_rows == M \div wc

Rows == 0 .. (M - 1)
Cols == 0 .. (N - 1)

\* ------------------------------------------------------------------------
\* generate_Hmatrix
\* ------------------------------------------------------------------------

\* H after the zero fill and the deterministic block 0
Block0 == [i \in Rows |-> [j \in Cols |->
             IF i < block_rows /\ i * wr <= j /\ j < (i + 1) * wr
             THEN 1 ELSE 0]]

IdPerm == [j \in Cols |-> j]

\* the swap with its last store left out (perm[r] is never written)
SwapPerm_Lost(p, j, r) == [p EXCEPT ![j] = p[r]]

\* one pass of the body of the shuffle loop: swap perm[j] and perm[r]
SwapPerm(p, j, r) == [p EXCEPT ![j] = p[r], ![r] = p[j]]

\* the block filled through the inverse of perm: H[j][perm[k]] = H[..][k]
ApplyBlock_Inverse(h, p, i) ==
  [j \in Rows |-> IF block_rows * i <= j /\ j < block_rows * (i + 1)
                  THEN [k \in Cols |->
                          h[j - block_rows * i][CHOOSE q \in Cols : p[q] = k]]
                  ELSE h[j]]

\* H[j][k] = H[j - block_rows * i][perm[k]] for the rows j of block i
ApplyBlock(h, p, i) ==
  [j \in Rows |-> IF block_rows * i <= j /\ j < block_rows * (i + 1)
                  THEN [k \in Cols |-> h[j - block_rows * i][p[k]]]
                  ELSE h[j]]

H_Begin ==
  /\ pc = "genH"
  /\ H' = Block0
  /\ perm' = IdPerm
  /\ bi' = 1
  /\ sj' = 0
  /\ pc' = IF 1 < wc THEN "shuffle" ELSE "genG"
  /\ UNCHANGED <<llrVars, fileVars, searchVars, entryVars>>
  /\ UNCHANGED <<N, wc, wr, X, gj, G, floop, calls, inf, code, LLR,
                 max_iter, iter, runs, u, v, ecc_hat, inf_hat, parity_ok>>

\* r = rand() % N
H_Shuffle ==
  /\ pc = "shuffle"
  /\ sj < N
  /\ \E r \in Cols : perm' = SwapPerm(perm, sj, r)
  /\ sj' = sj + 1
  /\ UNCHANGED <<llrVars, fileVars, searchVars, entryVars>>
  /\ UNCHANGED <<N, wc, wr, pc, H, bi, X, gj, G, floop, calls, inf, code,
                 LLR, max_iter, iter, runs, u, v, ecc_hat, inf_hat,
                 parity_ok>>

H_Apply ==
  /\ pc = "shuffle"
  /\ sj = N
  /\ H' = ApplyBlock(H, perm, bi)
  /\ bi' = bi + 1
  /\ perm' = IdPerm
  /\ sj' = 0
  /\ pc' = IF bi + 1 < wc THEN "shuffle" ELSE "genG"
  /\ UNCHANGED <<llrVars, fileVars, searchVars, entryVars>>
  /\ UNCHANGED <<N, wc, wr, X, gj, G, floop, calls, inf, code, LLR,
                 max_iter, iter, runs, u, v, ecc_hat, inf_hat, parity_ok>>

\* ------------------------------------------------------------------------
\* generate_Gmatrix
\* ------------------------------------------------------------------------
XCols == 0 .. (M + N - 1)

\* X = [H^T | I]
BuildX(h) == [i \in Cols |-> [j \in XCols |->
                IF j < M THEN h[j][i] ELSE IF i = j - M THEN 1 ELSE 0]]

SwapRows(x, a, b) == [x EXCEPT ![a] = x[b], ![b] = x[a]]

SwapCols(x, a, b) == [l \in DOMAIN x |-> [x[l] EXCEPT ![a] = x[l][b],
                                                      ![b] = x[l][a]]]

\* X[i][k] ^= X[p][k] for every row i != p with X[i][c] == 1
Eliminate(x, p, c) ==
  [i \in Cols |-> IF i # p /\ x[i][c] = 1
                  THEN [k \in XCols |-> XOR(x[i][k], x[p][k])]
                  ELSE x[i]]

Min(S) == CHOOSE a \in S : \A b \in S : a <= b
Max(S) == CHOOSE a \in S : \A b \in S : a >= b

\* rows below the pivot row p holding a 1 in column c
RowCands(x, p, c) == {i \in (p + 1) .. (N - 1) : x[i][c] = 1}

\* columns k, lo <= k <= M+N-1, holding a 1 in row p
ColCands(x, p, lo) == {k \in lo .. (M + N - 1) : x[p][k] = 1}

\* the left-block pivot search without its column swap
LeftPivot_RowOnly(x, j) ==
  IF x[j][j] # 0 THEN x
  ELSE IF RowCands(x, j, j) # {}
       THEN SwapRows(x, Min(RowCands(x, j, j)), j)
       ELSE x

\* pivot search of the left block: row swap, else column swap inside X
LeftPivot(x, j) ==
  IF x[j][j] # 0 THEN x
  ELSE IF RowCands(x, j, j) # {}
       THEN SwapRows(x, Min(RowCands(x, j, j)), j)
       ELSE IF ColCands(x, j, j + 1) # {}
            THEN SwapCols(x, Max(ColCands(x, j, j + 1)), j)
            ELSE x

\* does the right-block pivot search fall through to the column swap?
RightNeedsColSwap(x, j) ==
  /\ x[j - M][j] = 0
  /\ RowCands(x, j - M, j) = {}
  /\ ColCands(x, j - M, M) # {}

\* the right-block pivot search without its column swap
RightPivot_RowOnly(x, j) ==
  IF x[j - M][j] # 0 THEN x
  ELSE IF RowCands(x, j - M, j) # {}
       THEN SwapRows(x, Min(RowCands(x, j - M, j)), j - M)
       ELSE x

RightPivot(x, j) ==
  IF x[j - M][j] # 0 THEN x
  ELSE IF RowCands(x, j - M, j) # {}
       THEN SwapRows(x, Min(RowCands(x, j - M, j)), j - M)
       ELSE IF ColCands(x, j - M, M) # {}
            THEN SwapCols(x, Max(ColCands(x, j - M, M)), j)
            ELSE x

\* the column swap of X without its mirror in H
MirrorH_None(h, x, j) == h

\* the mirror applied to the first candidate column in place of the last
MirrorH_First(h, x, j) ==
  IF RightNeedsColSwap(x, j)
  THEN SwapCols(h, Min(ColCands(x, j - M, M)) - M, j - M)
  ELSE h

\* the mirror without the temporary: column j - M takes column k - M and
\* column k - M keeps its own entries
MirrorH_Copy(h, x, j) ==
  IF RightNeedsColSwap(x, j)
  THEN [i \in Rows |->
          [h[i] EXCEPT ![j - M] = h[i][Max(ColCands(x, j - M, M)) - M]]]
  ELSE h

\* the mirrored swap of H columns k - M and j - M
MirrorH(h, x, j) ==
  IF RightNeedsColSwap(x, j)
  THEN SwapCols(h, Max(ColCands(x, j - M, M)) - M, j - M)
  ELSE h

\* G[i - M][j - M] = X[i][j]
ExtractG(x) == [i \in 0 .. (K - 1) |-> [j \in Cols |-> x[i + M][j + M]]]

G_Build ==
  /\ pc = "genG"
  /\ X' = BuildX(H)
  /\ gj' = 0
  /\ pc' = "left"
  /\ H_entry' = H
  /\ UNCHANGED <<llrVars, fileVars, searchVars>>
  /\ UNCHANGED <<N, wc, wr, H, perm, bi, sj, G, floop, calls, inf, code,
                 LLR, max_iter, iter, runs, u, v, ecc_hat, inf_hat,
                 parity_ok>>

G_Left ==
  /\ pc = "left"
  /\ gj < M
  /\ X' = Eliminate(LeftPivot(X, gj), gj, gj)
  /\ gj' = gj + 1
  /\ UNCHANGED <<llrVars, fileVars, searchVars, entryVars>>
  /\ UNCHANGED <<N, wc, wr, pc, H, perm, bi, sj, G, floop, calls, inf,
                 code, LLR, max_iter, iter, runs, u, v, ecc_hat, inf_hat,
                 parity_ok>>

G_StartRight ==
  /\ pc = "left"
  /\ gj = M
  /\ gj' = 2 * M
  /\ pc' = "right"
  /\ UNCHANGED <<llrVars, fileVars, searchVars, entryVars>>
  /\ UNCHANGED <<N, wc, wr, H, perm, bi, sj, X, G, floop, calls, inf, code,
                 LLR, max_iter, iter, runs, u, v, ecc_hat, inf_hat,
                 parity_ok>>

G_Right ==
  /\ pc = "right"
  /\ gj < M + N
  /\ X' = Eliminate(RightPivot(X, gj), gj - M, gj)
  /\ H' = MirrorH(H, X, gj)
  /\ gj' = gj + 1
  /\ UNCHANGED <<llrVars, fileVars, searchVars, entryVars>>
  /\ UNCHANGED <<N, wc, wr, pc, perm, bi, sj, G, floop, calls, inf, code,
                 LLR, max_iter, iter, runs, u, v, ecc_hat, inf_hat,
                 parity_ok>>

G_Extract ==
  /\ pc = "right"
  /\ gj = M + N
  /\ G' = ExtractG(X)
  /\ pc' = "count"
  /\ H_entry' = None
  /\ UNCHANGED <<llrVars, fileVars, searchVars>>
  /\ UNCHANGED <<N, wc, wr, H, perm, bi, sj, X, gj, floop, calls, inf,
                 code, LLR, max_iter, iter, runs, u, v, ecc_hat, inf_hat,
                 parity_ok>>

\* ------------------------------------------------------------------------
\* count_floop
\* ------------------------------------------------------------------------

\* a 32-bit int as two 16-bit limbs, and back (two's complement)
Hi16(x) == (x \div 65536) % 65536
Lo16(x) == x % 65536
FromLimbs(hi, lo) == (IF hi >= 32768 THEN hi - 65536 ELSE hi) * 65536 + lo

\* x * k in 32-bit int arithmetic, for a small multiplier k
MulInt32(x, k) ==
  LET lo == Lo16(x) * k
      hi == Hi16(x) * k + (lo \div 65536)
  IN  FromLimbs(hi % 65536, lo % 65536)

\* C integer division truncates toward zero
CDiv(a, b) ==
  LET q == (IF a < 0 THEN -a ELSE a) \div (IF b < 0 THEN -b ELSE b)
  IN  IF (a < 0) = (b < 0) THEN q ELSE -q

\* static int factorial(int n): f = 1; for i = 1..n: f *= i
RECURSIVE factorial(_)
factorial(n) == IF n <= 0 THEN 1 ELSE MulInt32(factorial(n - 1), n)

\* the amount added for a column pair with `shared` common entries
PairTerm(shared) ==
  IF shared >= 2
  THEN CDiv(factorial(shared), MulInt32(factorial(shared - 2), 2))
  ELSE 0

\* rows i of column j holding a 1, in the order the scan meets them
OnesOf(h, j) == {i \in Rows : h[i][j] # 0}

\* number of entries of var_nodes[j] that the scan writes (it stops at wc)
Filled(h, j) == IF Cardinality(OnesOf(h, j)) < wc
                THEN Cardinality(OnesOf(h, j)) ELSE wc

\* the idx-th (0-based) smallest element of S
RECURSIVE Nth(_, _)
Nth(S, idx) == IF idx = 0 THEN Min(S) ELSE Nth(S \ {Min(S)}, idx - 1)

\* what an unwritten int of the heap may hold: a row index or anything else
GarbageVals == 0 .. M

\* var_nodes after the adjacency scan.  The entries of var_nodes[j] the scan
\* never writes keep what malloc returned: g[j], one value per column here
VarNodes(h, g) ==
  [j \in Cols |-> [k \in 0 .. (wc - 1) |->
      IF k < Filled(h, j) THEN Nth(OnesOf(h, j), k) ELSE g[j]]]

\* columns whose var_nodes row keeps unwritten entries
Unfilled(h) == {j \in Cols : Filled(h, j) < wc}

SharedOf(vn, i, j) ==
  Cardinality({q \in (0 .. (wc - 1)) \X (0 .. (wc - 1)) :
                 vn[i][q[1]] = vn[j][q[2]]})

RECURSIVE SumPairs(_, _)
SumPairs(vn, P) ==
  IF P = {} THEN 0
  ELSE LET q == CHOOSE q \in P : TRUE
       IN  PairTerm(SharedOf(vn, q[1], q[2])) + SumPairs(vn, P \ {q})

ColPairs == {q \in Cols \X Cols : q[1] < q[2]}

\* the values count_floop may return for h
count_floop(h) ==
  {SumPairs(VarNodes(h, g), ColPairs) : g \in [Unfilled(h) -> GarbageVals]}

\* the call made by the generator's main after generate_Gmatrix
Main_Count ==
  /\ pc = "count"
  /\ floop' \in count_floop(H)
  /\ calls' = calls + 1
  /\ pc' = "encode"
  /\ UNCHANGED <<llrVars, fileVars, searchVars, entryVars>>
  /\ UNCHANGED <<N, wc, wr, H, perm, bi, sj, X, gj, G, inf, code, LLR,
                 max_iter, iter, runs, u, v, ecc_hat, inf_hat, parity_ok>>

\* ------------------------------------------------------------------------
\* encode_LDPC
\* ------------------------------------------------------------------------

\* the accumulation with | in place of ^
RECURSIVE EncAcc_Or(_, _, _, _)
EncAcc_Or(info, g, i, j) ==
  IF j = 0 THEN 0
  ELSE IF EncAcc_Or(info, g, i, j - 1) + info[j - 1] * g[j - 1][i] > 0
       THEN 1 ELSE 0

\* val after the first j passes of: val ^= (inf[j] & G[j][i])
RECURSIVE EncAcc(_, _, _, _)
EncAcc(info, g, i, j) ==
  IF j = 0 THEN 0
  ELSE XOR(EncAcc(info, g, i, j - 1), info[j - 1] * g[j - 1][i])

encode_LDPC(info, g, n, k) == [i \in 0 .. (n - 1) |-> EncAcc(info, g, i, k)]

\* the simulation draws the information bits and encodes them
Main_Encode ==
  /\ pc = "encode"
  /\ \E info \in [0 .. (K - 1) -> Bit] :
        /\ inf' = info
        /\ code' = encode_LDPC(info, G, N, K)
  /\ pc' = "channel"
  /\ UNCHANGED <<llrVars, fileVars, searchVars, entryVars>>
  /\ UNCHANGED <<N, wc, wr, H, perm, bi, sj, X, gj, G, floop, calls, LLR,
                 max_iter, iter, runs, u, v, ecc_hat, inf_hat, parity_ok>>

\* ------------------------------------------------------------------------
\* channel: reals are held in tenths (20.0 is 200)
\* ------------------------------------------------------------------------

\* the noiseless LLR of a transmitted bit: +20 for 1, -20 for 0
CleanLLR(b) == IF b = 1 THEN 200 ELSE -200

\* LLR values a disturbed position may take: -20, 0 and +1
NoisyVals == {-200, 0, 10}

\* the noiseless LLR vector of a codeword
Noiseless(c) == [j \in Cols |-> CleanLLR(c[j])]

\* BPSK over the channel: noiseless, or one position disturbed
Main_Channel ==
  /\ pc = "channel"
  /\ \/ LLR' = Noiseless(code)
     \/ \E e \in Cols, nv \in NoisyVals :
           LLR' = [Noiseless(code) EXCEPT ![e] = nv]
  /\ pc' = "call"
  /\ UNCHANGED <<llrVars, fileVars, searchVars, entryVars>>
  /\ UNCHANGED <<N, wc, wr, H, perm, bi, sj, X, gj, G, floop, calls, inf,
                 code, max_iter, iter, runs, u, v, ecc_hat, inf_hat,
                 parity_ok>>

\* ------------------------------------------------------------------------
\* ldpc_decode_spa
\* ------------------------------------------------------------------------

\* sign_val: +1 for x >= 0, -1 otherwise
sign_val(x) == IF x >= 0 THEN 1 ELSE -1

fabs(x) == IF x < 0 THEN -x ELSE x

\* log((e^x + 1)/(e^x - 1)) in tenths at x = 1e-7, 0.1, 0.2, ..., 3.6;
\* it rounds to 0 from 3.7 up to the clip at 30.0
SpfTable == <<168, 30, 23, 19, 16, 14, 12, 11, 10, 9, 8, 7, 6, 6, 5, 5, 4,
              4, 3, 3, 3, 2, 2, 2, 2, 2, 1, 1, 1, 1, 1, 1, 1, 1, 1, 1, 1>>

\* spf: x below 1e-7 is clipped to 1e-7 (any x below one tenth is 0 here)
spf(x) == IF x < 1 THEN SpfTable[1]
          ELSE IF x < Len(SpfTable) THEN SpfTable[x + 1] ELSE 0

\* an adjacency list holding every row, whether or not H has a 1 there
variable_node_All(h, j) == Rows

\* check_node[i]: the columns j with H[i][j] != 0
check_node(h, i) == {j \in Cols : h[i][j] # 0}
\* variable_node[j]: the rows i with H[i][j] != 0
variable_node(h, j) == {i \in Rows : h[i][j] # 0}

RECURSIVE SumOver(_, _)
SumOver(f, S) == IF S = {} THEN 0
                 ELSE LET a == CHOOSE a \in S : TRUE
                      IN  f[a] + SumOver(f, S \ {a})

RECURSIVE ProdOver(_, _)
ProdOver(f, S) == IF S = {} THEN 1
                  ELSE LET a == CHOOSE a \in S : TRUE
                       IN  f[a] * ProdOver(f, S \ {a})

\* v[i][j_idx] = prod_sign * spf(sum_spf_val) over the other neighbours
CheckMsg(h, llr, uu, i, jx) ==
  LET others == check_node(h, i) \ {jx}
      x == [var \in others |-> llr[var] + uu[i][var]]
      prod_sign == ProdOver([var \in others |-> sign_val(x[var])], others)
      sum_spf_val == SumOver([var \in others |-> spf(fabs(x[var]))], others)
  IN  prod_sign * spf(sum_spf_val)

CheckUpdate(h, llr, uu, vv) ==
  [i \in Rows |-> [j \in Cols |->
      IF h[i][j] # 0 THEN CheckMsg(h, llr, uu, i, j) ELSE vv[i][j]]]

\* u[i_idx][j] = sum of v[cnode][j] over the other checks of j
VarUpdate(h, uu, vv) ==
  [i \in Rows |-> [j \in Cols |->
      IF h[i][j] # 0
      THEN SumOver([c \in Rows |-> vv[c][j]], variable_node(h, j) \ {i})
      ELSE uu[i][j]]]

\* the assignment of the check-node loop body followed at once by the
\* variable-node update of the column it wrote (a serial schedule)
CheckCell_Serial(h, llr, w, i, j) ==
  [v |-> [w.v EXCEPT ![i][j] = CheckMsg(h, llr, w.u, i, j)],
   u |-> [r \in Rows |-> [c \in Cols |->
            IF c = j /\ h[r][c] # 0
            THEN SumOver([q \in Rows |->
                            IF q = i THEN CheckMsg(h, llr, w.u, i, j)
                            ELSE w.v[q][c]],
                         variable_node(h, c) \ {r})
            ELSE w.u[r][c]]]]

\* the loops as the code runs them, in place on the working arrays
\* w = [u, v]: the assignment v[i][j_idx] = ... of the check-node loop body
CheckCell(h, llr, w, i, j) ==
  [w EXCEPT !.v[i][j] = CheckMsg(h, llr, w.u, i, j)]

\* the check-node loops over the first n cells (i outer, j inner)
RECURSIVE CheckPhase(_, _, _, _)
CheckPhase(h, llr, w, n) ==
  IF n = 0 THEN w
  ELSE LET prev == CheckPhase(h, llr, w, n - 1)
           i == (n - 1) \div N
           j == (n - 1) % N
       IN  IF h[i][j] # 0 THEN CheckCell(h, llr, prev, i, j) ELSE prev

\* the assignment u[i_idx][j] = sum_v of the variable-node loop body
VarCell(h, w, i, j) ==
  [w EXCEPT !.u[i][j] =
     SumOver([c \in Rows |-> w.v[c][j]], variable_node(h, j) \ {i})]

\* the variable-node loops over the first n cells (j outer, i inner)
RECURSIVE VarPhase(_, _, _)
VarPhase(h, w, n) ==
  IF n = 0 THEN w
  ELSE LET prev == VarPhase(h, w, n - 1)
           j == (n - 1) \div M
           i == (n - 1) % M
       IN  IF h[i][j] # 0 THEN VarCell(h, prev, i, j) ELSE prev

\* ecc[j] = (LLR[j] + sum of v[.][j] >= 0) ? 1 : 0
Tentative(h, llr, vv) ==
  [j \in Cols |->
      IF llr[j] + SumOver([c \in Rows |-> vv[c][j]], variable_node(h, j)) >= 0
      THEN 1 ELSE 0]

RECURSIVE XorOver(_, _)
XorOver(f, S) == IF S = {} THEN 0
                 ELSE LET a == CHOOSE a \in S : TRUE
                      IN  XOR(f[a], XorOver(f, S \ {a}))

\* the parity check that looks at the first row only
ParityOK_FirstRow(h, e) ==
  IF XorOver(e, check_node(h, 0)) = 0 THEN 1 ELSE 0

\* the parity check that never reports success
ParityOK_Never(h, e) == 0

\* parity_ok: 1 when every check row XORs to 0 over the tentative bits
ParityOK(h, e) ==
  IF \A i \in Rows : XorOver(e, check_node(h, i)) = 0 THEN 1 ELSE 0

ZeroMsg == [i \in Rows |-> [j \in Cols |-> 0]]

\* what the caller's ecc buffer holds on entry: all 0, all 1, or 1 0 ... 0
CallerBufs ==
  {[j \in Cols |-> b] : b \in Bit}
     \cup {[j \in Cols |-> IF j = 0 THEN 1 ELSE 0]}

\* entry: adjacency lists and zeroed messages
Dec_Enter ==
  /\ pc = "call"
  /\ \E mi \in 0 .. MaxIter :
        /\ max_iter' = mi
        /\ ecc_hat' \in CallerBufs
  /\ u' = ZeroMsg
  /\ v' = ZeroMsg
  /\ iter' = 0
  /\ runs' = 0
  /\ parity_ok' = 0
  /\ pc' = "iterate"
  /\ UNCHANGED <<llrVars, fileVars, searchVars, entryVars>>
  /\ UNCHANGED <<N, wc, wr, H, perm, bi, sj, X, gj, G, floop, calls, inf,
                 code, LLR, inf_hat>>

\* the loop condition with <= in place of <
LoopCond_Le(it, mi) == it <= mi

\* for (iter = 0; iter < max_iter; iter++)
LoopCond(it, mi) == it < mi

\* one pass of the iteration loop, up to the break or the iter++
Dec_Iter ==
  /\ pc = "iterate"
  /\ parity_ok = 0
  /\ LoopCond(iter, max_iter)
  /\ v' = CheckUpdate(H, LLR, u, v)
  /\ u' = VarUpdate(H, u, v')
  /\ ecc_hat' = Tentative(H, LLR, v')
  /\ parity_ok' = ParityOK(H, ecc_hat')
  /\ iter' = IF parity_ok' = 1 THEN iter ELSE iter + 1
  /\ runs' = runs + 1
  /\ UNCHANGED <<llrVars, fileVars, searchVars, entryVars>>
  /\ UNCHANGED <<N, wc, wr, pc, H, perm, bi, sj, X, gj, G, floop, calls,
                 inf, code, LLR, max_iter, inf_hat>>

\* the extraction without the offset N - K
ExtractInf_Head(e, n, k) == [i \in 0 .. (k - 1) |-> e[i]]

\* inf[i] = ecc[i + (N - K)]
ExtractInf(e, n, k) == [i \in 0 .. (k - 1) |-> e[i + (n - k)]]

Dec_Extract ==
  /\ pc = "iterate"
  /\ parity_ok = 1 \/ ~LoopCond(iter, max_iter)
  /\ inf_hat' = ExtractInf(ecc_hat, N, K)
  /\ pc' = "done"
  /\ UNCHANGED <<llrVars, fileVars, searchVars, entryVars>>
  /\ UNCHANGED <<N, wc, wr, H, perm, bi, sj, X, gj, G, floop, calls, inf,
                 code, LLR, max_iter, iter, runs, u, v, ecc_hat, parity_ok>>

\* ------------------------------------------------------------------------
\* parameters read by the generator's main
\* ------------------------------------------------------------------------
Params == {c \in [N : 2 .. MaxN, wc : 1 .. MaxN, wr : 2 .. MaxN] :
             /\ c.wc < c.wr
             /\ c.wr <= c.N
             /\ (c.N * c.wc) % c.wr = 0}

Init ==
  /\ \E c \in Params : N = c.N /\ wc = c.wc /\ wr = c.wr
  /\ pc = "genH"
  /\ H = None /\ perm = None /\ bi = 0 /\ sj = 0
  /\ X = None /\ gj = 0 /\ G = None
  /\ floop = 0 /\ calls = 0
  /\ inf = None /\ code = None /\ LLR = None
  /\ max_iter = 0 /\ iter = 0 /\ runs = 0
  /\ u = None /\ v = None /\ ecc_hat = None /\ inf_hat = None
  /\ parity_ok = 0
  /\ LlrIdle /\ FileIdle /\ SearchIdle /\ H_entry = None

Next ==
  \/ H_Begin
  \/ H_Shuffle
  \/ H_Apply
  \/ G_Build
  \/ G_Left
  \/ G_StartRight
  \/ G_Right
  \/ G_Extract
  \/ Main_Count
  \/ Main_Encode
  \/ Main_Channel
  \/ Dec_Enter
  \/ Dec_Iter
  \/ Dec_Extract

Spec == Init /\ [][Next]_vars

\* ------------------------------------------------------------------------
\* count_floop called directly, any number of times, on a given matrix
\* ------------------------------------------------------------------------
MaxCountN == 3
MaxCountM == 2
MaxDenseWc == 13
MaxCalls == 2

AllMatrices(m, n) == [0 .. (m - 1) -> [0 .. (n - 1) -> Bit]]

\* small matrices of every shape and content
SmallCountInputs ==
  {c \in [N : 2 .. MaxCountN, wc : 1 .. MaxCountM, wr : 1 .. MaxCountN,
          H : UNION {AllMatrices(m, n) : m \in 1 .. MaxCountM,
                                         n \in 2 .. MaxCountN}] :
     /\ Mof(c.N, c.wc, c.wr) \in 1 .. MaxCountM
     /\ c.H \in AllMatrices(Mof(c.N, c.wc, c.wr), c.N)}

\* two identical all-ones columns of weight wc
DenseCountInputs ==
  {[N |-> 2, wc |-> w, wr |-> 2,
    H |-> [i \in 0 .. (w - 1) |-> [j \in 0 .. 1 |-> 1]]] :
     w \in 3 .. MaxDenseWc}

Count_Call ==
  /\ pc = "countfn"
  /\ calls < MaxCalls
  /\ floop' \in count_floop(H)
  /\ calls' = calls + 1
  /\ UNCHANGED <<llrVars, fileVars, searchVars, entryVars>>
  /\ UNCHANGED <<N, wc, wr, pc, H, perm, bi, sj, X, gj, G, inf, code, LLR,
                 max_iter, iter, runs, u, v, ecc_hat, inf_hat, parity_ok>>

InitCount ==
  /\ \E c \in SmallCountInputs \cup DenseCountInputs :
        N = c.N /\ wc = c.wc /\ wr = c.wr /\ H = c.H
  /\ pc = "countfn"
  /\ perm = None /\ bi = 0 /\ sj = 0
  /\ X = None /\ gj = 0 /\ G = None
  /\ floop = 0 /\ calls = 0
  /\ inf = None /\ code = None /\ LLR = None
  /\ max_iter = 0 /\ iter = 0 /\ runs = 0
  /\ u = None /\ v = None /\ ecc_hat = None /\ inf_hat = None
  /\ parity_ok = 0
  /\ LlrIdle /\ FileIdle /\ SearchIdle /\ H_entry = None

NextCount == Count_Call

SpecCount == InitCount /\ [][NextCount]_vars

\* ------------------------------------------------------------------------
\* encode_LDPC called directly on a given information vector and matrix
\* ------------------------------------------------------------------------
MaxEncN == 3
MaxEncK == 2

Enc_Call ==
  /\ pc = "encfn"
  /\ code' = encode_LDPC(inf, G, N, K)
  /\ pc' = "encdone"
  /\ UNCHANGED <<llrVars, fileVars, searchVars, entryVars>>
  /\ UNCHANGED <<N, wc, wr, H, perm, bi, sj, X, gj, G, floop, calls, inf,
                 LLR, max_iter, iter, runs, u, v, ecc_hat, inf_hat,
                 parity_ok>>

\* N and K are free: wr = N and wc = N - K make K the value N - M
InitEnc ==
  /\ \E n \in 1 .. MaxEncN : \E k \in 1 .. MaxEncK :
        /\ k <= n
        /\ N = n /\ wc = n - k /\ wr = n
        /\ G \in AllMatrices(k, n)
        /\ inf \in [0 .. (k - 1) -> Bit]
  /\ pc = "encfn"
  /\ H = None /\ perm = None /\ bi = 0 /\ sj = 0
  /\ X = None /\ gj = 0
  /\ floop = 0 /\ calls = 0
  /\ code = None /\ LLR = None
  /\ max_iter = 0 /\ iter = 0 /\ runs = 0
  /\ u = None /\ v = None /\ ecc_hat = None /\ inf_hat = None
  /\ parity_ok = 0
  /\ LlrIdle /\ FileIdle /\ SearchIdle /\ H_entry = None

NextEnc == Enc_Call

SpecEnc == InitEnc /\ [][NextEnc]_vars

\* ------------------------------------------------------------------------
\* compute_llr_from_pyx: likelihoods are small integers, logs are in tenths
\* ------------------------------------------------------------------------

\* largest number of entries E * N of the likelihood array
MaxPyxCells == 8

\* likelihood values an entry of pyx may hold
PyxVals == {0, 1, 3}

\* (int)log2((double)E)
RECURSIVE Log2Floor(_)
Log2Floor(e) == IF e < 2 THEN 0 ELSE 1 + Log2Floor(e \div 2)

RECURSIVE Pow2(_)
Pow2(b) == IF b = 0 THEN 1 ELSE 2 * Pow2(b - 1)

\* symbol_bits[k][b] = (k >> b) & 1
symbol_bits(k, b) == (k \div Pow2(b)) % 2

\* p1 (bit = 1) or p0 (bit = 0) after the first k passes of the symbol loop
RECURSIVE PAcc(_, _, _, _, _)
PAcc(p, i, b, bit, k) ==
  IF k = 0 THEN 0
  ELSE PAcc(p, i, b, bit, k - 1)
         + (IF symbol_bits(k - 1, b) = bit THEN p[k - 1][i] ELSE 0)

\* 10 ln(n) for n = 1 .. 16, rounded
LnTable == <<0, 7, 11, 14, 16, 18, 19, 21, 22, 23, 24, 25, 26, 26, 27, 28>>

\* log(p) in tenths, after the floor: p <= 0 is replaced by 1e-300
LogT(p) == IF p <= 0 THEN -6908 ELSE LnTable[p]

\* log(p1 / p0)
LogRatio(p1, p0) == LogT(p1) - LogT(p0)

\* the output index with the two loop indices exchanged
LlrIndex_Swapped(b, i, logE) == i + b * logE

\* the output index b + i * logE
LlrIndex(b, i, logE) == b + i * logE

\* one pass of the body of the (i, b) loops
Llr_Step ==
  /\ pc = "llr"
  /\ li < N
  /\ lb < Log2Floor(E)
  /\ LLR' = [x \in DOMAIN LLR \cup {LlrIndex(lb, li, Log2Floor(E))} |->
               IF x = LlrIndex(lb, li, Log2Floor(E))
               THEN LogRatio(PAcc(pyx, li, lb, 1, E), PAcc(pyx, li, lb, 0, E))
               ELSE LLR[x]]
  /\ IF lb + 1 < Log2Floor(E)
     THEN lb' = lb + 1 /\ li' = li
     ELSE lb' = 0 /\ li' = li + 1
  /\ UNCHANGED <<N, wc, wr, pc, H, perm, bi, sj, X, gj, G, floop, calls,
                 inf, code, max_iter, iter, runs, u, v, ecc_hat, inf_hat,
                 parity_ok, E, pyx, fileVars, searchVars, entryVars>>

\* the loops are over: cleanup and return
Llr_Return ==
  /\ pc = "llr"
  /\ li = N
  /\ pc' = "llrdone"
  /\ UNCHANGED <<N, wc, wr, H, perm, bi, sj, X, gj, G, floop, calls,
                 inf, code, LLR, max_iter, iter, runs, u, v, ecc_hat,
                 inf_hat, parity_ok, llrVars, fileVars, searchVars, entryVars>>

\* every alphabet size E = 2, 4, 8, ... and length N with E * N cells at most
LlrInputs ==
  {c \in [E : 2 .. MaxPyxCells, N : 1 .. MaxPyxCells] :
     /\ c.E * c.N <= MaxPyxCells
     /\ Pow2(Log2Floor(c.E)) = c.E}

\* the output buffer starts unwritten: LLR holds the entries written so far
InitLlr ==
  /\ \E c \in LlrInputs :
        /\ E = c.E /\ N = c.N
        /\ pyx \in [0 .. (c.E - 1) -> [0 .. (c.N - 1) -> PyxVals]]
  /\ pc = "llr"
  /\ li = 0 /\ lb = 0
  /\ LLR = <<>>
  /\ wc = 1 /\ wr = 2
  /\ H = None /\ perm = None /\ bi = 0 /\ sj = 0
  /\ X = None /\ gj = 0 /\ G = None
  /\ floop = 0 /\ calls = 0
  /\ inf = None /\ code = None
  /\ max_iter = 0 /\ iter = 0 /\ runs = 0
  /\ u = None /\ v = None /\ ecc_hat = None /\ inf_hat = None
  /\ parity_ok = 0
  /\ FileIdle /\ SearchIdle /\ H_entry = None

NextLlr ==
  \/ Llr_Step
  \/ Llr_Return

SpecLlr == InitLlr /\ [][NextLlr]_vars

\* ------------------------------------------------------------------------
\* compute_llr_from_pyx on doubles: a finite non-negative double is held as
\* m * 2^e with a small integer m (m = 0 is 0.0).  The range of a double is
\* kept: a quotient of 2^1024 or more is +inf, one of 2^-1075 or less is 0;
\* the rounding of the 53-bit mantissa is not.
\* ------------------------------------------------------------------------

\* largest number of entries E * N of the array of doubles
MaxDblCells == 4

Dbl(m, e) == [m |-> m, e |-> e]

\* the literal 1e-300 = 0x1.56e1fc2f8f359p-997, to 11 bits
Eps == Dbl(1371, -1007)

\* likelihoods: 0, the least denormal, 2^-1000 < 1e-300, 2^-10 and 1
PyxDblVals ==
  {Dbl(0, 0), Dbl(1, -1074), Dbl(1, -1000), Dbl(1, -10), Dbl(1, 0)}

\* a / b >= 2^k for positive a, b with mantissas below 2^13
GeqPow2(a, b, k) ==
  LET d == a.e - b.e - k
  IN  IF d >= 0
      THEN (IF d > 13 THEN TRUE ELSE a.m * Pow2(d) >= b.m)
      ELSE (IF -d > 13 THEN FALSE ELSE a.m >= b.m * Pow2(-d))

\* a <= b
LeqD(a, b) ==
  IF a.m = 0 THEN TRUE
  ELSE IF b.m = 0 THEN FALSE
  ELSE GeqPow2(b, a, 0)

\* a + b: an addend below half an ulp of the other is absorbed
AddD(a, b) ==
  IF a.m = 0 THEN b
  ELSE IF b.m = 0 THEN a
  ELSE IF a.e = b.e THEN Dbl(a.m + b.m, a.e)
  ELSE LET hi == IF a.e > b.e THEN a ELSE b
           lo == IF a.e > b.e THEN b ELSE a
       IN  IF hi.e - lo.e >= 66 THEN hi
           ELSE Dbl(hi.m * Pow2(hi.e - lo.e) + lo.m, lo.e)

\* p1 (bit = 1) or p0 (bit = 0) after the first k passes of the symbol loop
RECURSIVE PAccD(_, _, _, _, _)
PAccD(p, i, b, bit, k) ==
  IF k = 0 THEN Dbl(0, 0)
  ELSE IF symbol_bits(k - 1, b) = bit
       THEN AddD(PAccD(p, i, b, bit, k - 1), p[k - 1][i])
       ELSE PAccD(p, i, b, bit, k - 1)

\* if (p <= 0.0) p = 1e-300
SafeP(p) == IF LeqD(p, Dbl(0, 0)) THEN Eps ELSE p

\* p1 / p0 for positive operands: +inf, 0 or the quotient num/den * 2^e
DivD(a, b) ==
  IF GeqPow2(a, b, 1024) THEN [cls |-> "inf", num |-> 0, den |-> 0, e |-> 0]
  ELSE IF ~GeqPow2(a, b, -1075) \/ (a.m = b.m /\ a.e - b.e = -1075)
       THEN [cls |-> "zero", num |-> 0, den |-> 0, e |-> 0]
       ELSE [cls |-> "finite", num |-> a.m, den |-> b.m, e |-> a.e - b.e]

\* log(q): log(+inf) = +inf, log(0) = -inf, else the finite log of q
LogD(q) ==
  IF q.cls = "zero" THEN [q EXCEPT !.cls = "-inf"] ELSE q

\* one pass of the body of the (i, b) loops
LlrDbl_Step ==
  /\ pc = "llrdbl"
  /\ li < N
  /\ lb < Log2Floor(E)
  /\ LLR' = [x \in DOMAIN LLR \cup {LlrIndex(lb, li, Log2Floor(E))} |->
               IF x = LlrIndex(lb, li, Log2Floor(E))
               THEN LogD(DivD(SafeP(PAccD(pyx, li, lb, 1, E)),
                              SafeP(PAccD(pyx, li, lb, 0, E))))
               ELSE LLR[x]]
  /\ IF lb + 1 < Log2Floor(E)
     THEN lb' = lb + 1 /\ li' = li
     ELSE lb' = 0 /\ li' = li + 1
  /\ UNCHANGED <<N, wc, wr, pc, H, perm, bi, sj, X, gj, G, floop, calls,
                 inf, code, max_iter, iter, runs, u, v, ecc_hat, inf_hat,
                 parity_ok, E, pyx, fileVars, searchVars, entryVars>>

\* the loops are over: cleanup and return
LlrDbl_Return ==
  /\ pc = "llrdbl"
  /\ li = N
  /\ pc' = "llrdbldone"
  /\ UNCHANGED <<N, wc, wr, H, perm, bi, sj, X, gj, G, floop, calls,
                 inf, code, LLR, max_iter, iter, runs, u, v, ecc_hat,
                 inf_hat, parity_ok, llrVars, fileVars, searchVars, entryVars>>

LlrDblInputs ==
  {c \in [E : 2 .. MaxDblCells, N : 1 .. MaxDblCells] :
     /\ c.E * c.N <= MaxDblCells
     /\ Pow2(Log2Floor(c.E)) = c.E}

InitLlrDbl ==
  /\ \E c \in LlrDblInputs :
        /\ E = c.E /\ N = c.N
        /\ pyx \in [0 .. (c.E - 1) -> [0 .. (c.N - 1) -> PyxDblVals]]
  /\ pc = "llrdbl"
  /\ li = 0 /\ lb = 0
  /\ LLR = <<>>
  /\ wc = 1 /\ wr = 2
  /\ H = None /\ perm = None /\ bi = 0 /\ sj = 0
  /\ X = None /\ gj = 0 /\ G = None
  /\ floop = 0 /\ calls = 0
  /\ inf = None /\ code = None
  /\ max_iter = 0 /\ iter = 0 /\ runs = 0
  /\ u = None /\ v = None /\ ecc_hat = None /\ inf_hat = None
  /\ parity_ok = 0
  /\ FileIdle /\ SearchIdle /\ H_entry = None

NextLlrDbl ==
  \/ LlrDbl_Step
  \/ LlrDbl_Return

SpecLlrDbl == InitLlrDbl /\ [][NextLlrDbl]_vars

\* ------------------------------------------------------------------------
\* persistence: the generator saves H.csv and G.csv, init_LDPC loads them.
\* Rows here can be as long as the line buffer, so a row of a 0/1 matrix is
\* held as the set of columns where it is 1, and a line of a file as its
\* length and the set of offsets where its character is '1'.
\* ------------------------------------------------------------------------

\* largest N whose matrices are saved and loaded with every content
MaxFileN == 3

\* char line[4096]
LineBuf == 4096

\* the line written for row i: fprintf "%d" of each of the N entries, which
\* are 0 or 1 and give one character each, and a newline at offset N
WriteLine(mat, i) == [len |-> N + 1, ones |-> mat[i] \cap Cols]

\* the file written for a matrix of `rows` rows
WriteFile(mat, rows) == [i \in 0 .. (rows - 1) |-> WriteLine(mat, i)]

\* the character at offset c of a line
CharAt(ln, c) == IF c = ln.len - 1 THEN "\n"
                 ELSE IF c \in ln.ones THEN "1" ELSE "0"

\* fgets returns at most LineBuf - 1 characters and stops after a newline:
\* the number of calls that consume one line of N + 1 characters
ReadsPerLine == (N + 1 + (LineBuf - 2)) \div (LineBuf - 1)

\* the number of calls of fgets that return non-NULL
NumReads(file) == Cardinality(DOMAIN file) * ReadsPerLine

\* offset in its line, and length, of what call t of fgets returns
ReadOff(t) == (t % ReadsPerLine) * (LineBuf - 1)
ReadLen(t) == IF N + 1 - ReadOff(t) < LineBuf - 1
              THEN N + 1 - ReadOff(t) ELSE LineBuf - 1

\* the offsets j, lo <= j < N, with line[j] == '1' after call t of fgets:
\* those of the characters just read, and beyond the terminating NUL those
\* the buffer held before (nothing before the first call: the buffer is not
\* initialised, and no j < N lies there while N < LineBuf)
RECURSIVE LineOnes(_, _, _)
LineOnes(file, t, lo) ==
  LET ln == file[t \div ReadsPerLine]
      fresh == {c - ReadOff(t) :
                  c \in {d \in ln.ones :
                           /\ CharAt(ln, d) = "1"
                           /\ ReadOff(t) + lo <= d
                           /\ d < ReadOff(t) + ReadLen(t)
                           /\ d - ReadOff(t) < N}}
  IN  IF ReadLen(t) + 1 >= N \/ t = 0 THEN fresh
      ELSE fresh \cup LineOnes(file, t - 1,
                               IF lo > ReadLen(t) THEN lo ELSE ReadLen(t) + 1)

\* the array after the loop: row i is filled from the i-th call of fgets,
\* X[i][j] = (line[j] == '1') ? 1 : 0; rows beyond the array are not kept
ReadRows(file, rows) ==
  LET reads == NumReads(file)
  IN  [i \in 0 .. (rows - 1) |->
         IF i < reads THEN LineOnes(file, i, 0) ELSE {}]

\* the loop stores through H[i] (G[i]) with i past the last allocated row
RowOverrun(file, rows) == NumReads(file) > rows

\* the periodic save of the best matrices
File_Save ==
  /\ pc = "save"
  /\ fileH' = WriteFile(H_best, M)
  /\ fileG' = WriteFile(G_best, K)
  /\ pc' = "saved"
  /\ UNCHANGED <<N, wc, wr, H, perm, bi, sj, X, gj, G, floop, calls,
                 inf, code, LLR, max_iter, iter, runs, u, v, ecc_hat,
                 inf_hat, parity_ok, llrVars, Hin, Gin, searchVars, entryVars>>

\* init_LDPC for the same (N, wc, wr).  A store past the last row is
\* undefined: the call may crash, or return with the arrays as filled
Init_LDPC ==
  /\ pc = "saved"
  /\ Hin' = ReadRows(fileH, M)
  /\ Gin' = ReadRows(fileG, K)
  /\ IF RowOverrun(fileH, M) \/ RowOverrun(fileG, K)
     THEN pc' \in {"crash", "loaded"}
     ELSE pc' = "loaded"
  /\ UNCHANGED <<N, wc, wr, H, perm, bi, sj, X, gj, G, floop, calls,
                 inf, code, LLR, max_iter, iter, runs, u, v, ecc_hat,
                 inf_hat, parity_ok, llrVars, fileH, fileG, searchVars,
                 entryVars>>

\* every shape up to MaxFileN
SmallFileInputs ==
  {c \in [N : 1 .. MaxFileN, wc : 0 .. MaxFileN, wr : 1 .. MaxFileN] :
     c.wr = c.N /\ c.wc <= c.N}

\* every 0/1 matrix of the given shape
RowSets(rows, n) == [0 .. (rows - 1) -> SUBSET (0 .. (n - 1))]

\* a line as long as the line buffer allows, and one character longer
LongFileN == {LineBuf - 2, LineBuf - 1}

InitFile ==
  /\ \/ \E c \in SmallFileInputs :
           /\ N = c.N /\ wc = c.wc /\ wr = c.wr
           /\ H_best \in RowSets(c.wc, c.N)
           /\ G_best \in RowSets(c.N - c.wc, c.N)
     \/ \E n \in LongFileN :
           /\ N = n /\ wc = 1 /\ wr = n
           /\ H_best = [i \in 0 .. 0 |-> {0, 2, n - 1}]
           /\ G_best = [i \in 0 .. (n - 2) |-> {i, i + 1}]
  /\ pc = "save"
  /\ H = None /\ G = None
  /\ perm = None /\ bi = 0 /\ sj = 0
  /\ X = None /\ gj = 0
  /\ floop = 0 /\ calls = 0
  /\ inf = None /\ code = None /\ LLR = None
  /\ max_iter = 0 /\ iter = 0 /\ runs = 0
  /\ u = None /\ v = None /\ ecc_hat = None /\ inf_hat = None
  /\ parity_ok = 0
  /\ loop = 1 /\ best_floop = 0
  /\ LlrIdle /\ FileIdle /\ H_entry = None

NextFile ==
  \/ File_Save
  \/ Init_LDPC

SpecFile == InitFile /\ [][NextFile]_vars

\* ------------------------------------------------------------------------
\* the search loop of the generator's main
\* ------------------------------------------------------------------------

\* trials run by the search loop (loop_count_max in the code)
MaxLoops == 2

\* parameters for which generate_Hmatrix fills every row of H
SearchParams == {c \in Params : c.N % c.wr = 0}

\* the update test that keeps the latest pair whatever its count
Improves_Always(fl, best) == TRUE

\* if (best_floop == -1 || floop < best_floop)
Improves(fl, best) == best = -1 \/ fl < best

\* steps 2 and 3 of a trial: count the 4-cycles of H, keep the pair if it is
\* the first or has fewer than the best so far, and go on to the next trial
Search_Score ==
  /\ pc = "count"
  /\ \E fl \in count_floop(H) :
        /\ floop' = fl
        /\ IF Improves(fl, best_floop)
           THEN best_floop' = fl /\ H_best' = H /\ G_best' = G
           ELSE UNCHANGED <<best_floop, H_best, G_best>>
  /\ calls' = calls + 1
  /\ loop' = loop + 1
  /\ pc' = IF loop + 1 <= MaxLoops THEN "genH" ELSE "searched"
  /\ UNCHANGED <<N, wc, wr, H, perm, bi, sj, X, gj, G, inf, code, LLR,
                 max_iter, iter, runs, u, v, ecc_hat, inf_hat, parity_ok,
                 llrVars, fileVars, entryVars>>

InitSearch ==
  /\ \E c \in SearchParams : N = c.N /\ wc = c.wc /\ wr = c.wr
  /\ pc = "genH"
  /\ H = None /\ perm = None /\ bi = 0 /\ sj = 0
  /\ X = None /\ gj = 0 /\ G = None
  /\ floop = 0 /\ calls = 0
  /\ inf = None /\ code = None /\ LLR = None
  /\ max_iter = 0 /\ iter = 0 /\ runs = 0
  /\ u = None /\ v = None /\ ecc_hat = None /\ inf_hat = None
  /\ parity_ok = 0
  /\ loop = 1 /\ best_floop = -1 /\ H_best = None /\ G_best = None
  /\ LlrIdle /\ FileIdle /\ H_entry = None

NextSearch ==
  \/ H_Begin
  \/ H_Shuffle
  \/ H_Apply
  \/ G_Build
  \/ G_Left
  \/ G_StartRight
  \/ G_Right
  \/ G_Extract
  \/ Search_Score

SpecSearch == InitSearch /\ [][NextSearch]_vars

\* ------------------------------------------------------------------------
\* ldpc_decode_spa called directly on a given matrix and LLR vector
\* ------------------------------------------------------------------------

\* largest number of entries M * N of the matrix handed to the decoder
MaxDecCells == 6

\* LLR values of the direct calls: -20, 0 and +1
DecLLRVals == {-200, 0, 10}

\* every shape with 1 <= M < N and every 0/1 content
DecInputs ==
  {c \in [N : 2 .. (MaxDecCells \div 2), wc : 1 .. (MaxDecCells \div 2)] :
     c.wc < c.N /\ c.wc * c.N <= MaxDecCells}

InitDec ==
  /\ \E c \in DecInputs :
        /\ N = c.N /\ wc = c.wc /\ wr = c.N
        /\ H \in AllMatrices(c.wc, c.N)
        /\ LLR \in [0 .. (c.N - 1) -> DecLLRVals]
  /\ pc = "call"
  /\ perm = None /\ bi = 0 /\ sj = 0
  /\ X = None /\ gj = 0 /\ G = None
  /\ floop = 0 /\ calls = 0
  /\ inf = None /\ code = None
  /\ max_iter = 0 /\ iter = 0 /\ runs = 0
  /\ u = None /\ v = None /\ ecc_hat = None /\ inf_hat = None
  /\ parity_ok = 0
  /\ LlrIdle /\ FileIdle /\ SearchIdle /\ H_entry = None

NextDec ==
  \/ Dec_Enter
  \/ Dec_Iter
  \/ Dec_Extract

SpecDec == InitDec /\ [][NextDec]_vars

\* the decoder is a sequential loop: once entered it keeps executing, so an
\* enabled iteration or extraction is eventually taken
SpecDecFair == SpecDec /\ WF_vars(Dec_Iter) /\ WF_vars(Dec_Extract)

\* ------------------------------------------------------------------------
\* generate_Gmatrix called directly on a given parity-check matrix
\* ------------------------------------------------------------------------

\* largest N, and largest number of entries M * N, of the matrix handed over
MaxGN == 4
MaxGCells == 12

\* every shape with 1 <= M < N
GInputs ==
  {c \in [N : 2 .. MaxGN, wc : 1 .. MaxGN] :
     c.wc < c.N /\ c.wc * c.N <= MaxGCells}

\* 3 x 5 matrices with at least two 1s in every column, as for wc = 2
WideGInputs ==
  {h \in AllMatrices(3, 5) :
     \A j \in 0 .. 4 : Cardinality({i \in 0 .. 2 : h[i][j] = 1}) >= 2}

\* every 0/1 content, rank-deficient matrices included
InitG ==
  /\ \/ \E c \in GInputs :
           /\ N = c.N /\ wc = c.wc /\ wr = c.N
           /\ H \in AllMatrices(c.wc, c.N)
     \/ /\ N = 5 /\ wc = 2 /\ wr = 3
        /\ H \in WideGInputs
  /\ pc = "genG"
  /\ perm = None /\ bi = 0 /\ sj = 0
  /\ X = None /\ gj = 0 /\ G = None
  /\ floop = 0 /\ calls = 0
  /\ inf = None /\ code = None /\ LLR = None
  /\ max_iter = 0 /\ iter = 0 /\ runs = 0
  /\ u = None /\ v = None /\ ecc_hat = None /\ inf_hat = None
  /\ parity_ok = 0
  /\ LlrIdle /\ FileIdle /\ SearchIdle /\ H_entry = None

NextG ==
  \/ G_Build
  \/ G_Left
  \/ G_StartRight
  \/ G_Right
  \/ G_Extract

SpecG == InitG /\ [][NextG]_vars

\* ------------------------------------------------------------------------
\* Properties
\* ------------------------------------------------------------------------

\* H g^T = 0 over GF(2) for every row g of G
HGZero == \A g \in DOMAIN G : \A i \in Rows :
            (Cardinality({j \in Cols : H[i][j] = 1 /\ G[g][j] = 1}) % 2) = 0

\* the block size M / wc = N / wr is an integer
IntegerBlocks == N % wr = 0

\* wc ones in every column and wr ones in every row of h
Regular(h) ==
  /\ \A j \in Cols : Cardinality({i \in Rows : h[i][j] = 1}) = wc
  /\ \A i \in Rows : Cardinality({j \in Cols : h[i][j] = 1}) = wr

\* every parity equation of h holds for the bits e
AllChecksZero(h, e) ==
  \A i \in Rows : (Cardinality({j \in Cols : h[i][j] = 1 /\ e[j] = 1}) % 2) = 0

\* C1: after generate_Hmatrix and generate_Gmatrix with integer block sizes,
\* every row g of G satisfies H g^T = 0 for the H left by generate_Gmatrix.
C1_NullSpace == (pc = "count" /\ IntegerBlocks) => HGZero

C1_Witness ==
  /\ pc = "count" /\ N = 6 /\ wc = 2 /\ wr = 3
  /\ H # ApplyBlock(Block0, IdPerm, 1)
  /\ \E g \in DOMAIN G : Cardinality({j \in Cols : G[g][j] = 1}) >= 2

\* C2 as stated: whenever wc < wr and N wc is divisible by wr, the H left by
\* generate_Hmatrix has wc ones in every column and wr ones in every row.
C2_Original == (pc = "genG") => Regular(H)

\* C2 amended: the same whenever wc < wr and N is divisible by wr.
C2_Regular == (pc = "genG" /\ IntegerBlocks) => Regular(H)

C2_Witness ==
  /\ pc = "genG" /\ N = 6 /\ wc = 2 /\ wr = 3
  /\ H[block_rows][0] = 0

\* C3: decoding the noiseless LLRs of an encoded vector with max_iter >= 1
\* returns the codeword and the information bits, after one iteration.
C3_RoundTrip ==
  (pc = "done" /\ IntegerBlocks /\ max_iter >= 1 /\ LLR = Noiseless(code))
    => (ecc_hat = code /\ inf_hat = inf /\ runs = 1)

\* C4: the last K columns of G are the identity, and the codeword carries
\* the information bits in positions M .. N-1.
C4_Systematic ==
  /\ pc = "count" =>
       \A g \in 0 .. (K - 1) : \A j \in 0 .. (K - 1) :
          G[g][M + j] = (IF g = j THEN 1 ELSE 0)
  /\ pc = "channel" => \A i \in 0 .. (K - 1) : code[M + i] = inf[i]

C4_Witness ==
  /\ pc = "channel" /\ K >= 2
  /\ inf[0] = 1 /\ inf[1] = 0
  /\ \E i \in 0 .. (M - 1) : code[i] = 1

\* C5: encode_LDPC sets ecc[i] to the parity of the number of j with
\* inf[j] = 1 and G[j][i] = 1, and writes neither inf nor G.
C5_EncodeXor ==
  /\ [](pc = "encdone" =>
          \A i \in Cols :
             code[i] = Cardinality({j \in 0 .. (K - 1) :
                                      inf[j] = 1 /\ G[j][i] = 1}) % 2)
  /\ [][pc = "encfn" => (inf' = inf /\ G' = G)]_vars

C5_Witness ==
  /\ pc = "encdone" /\ K = 2 /\ N = 3
  /\ inf[0] = 1 /\ inf[1] = 1
  /\ G[0][0] = 1 /\ G[1][0] = 1 /\ code[0] = 0
  /\ G[0][1] = 1 /\ G[1][1] = 0 /\ code[1] = 1

\* C6: once an iteration's parity check passes, no message or bit changes
\* again and the returned codeword satisfies every parity equation of H.
C6_EarlyStop ==
  /\ []((pc \in {"iterate", "done"} /\ parity_ok = 1)
          => AllChecksZero(H, ecc_hat))
  /\ [][(pc = "iterate" /\ parity_ok = 1)
          => (u' = u /\ v' = v /\ ecc_hat' = ecc_hat /\ runs' = runs
              /\ pc' = "done")]_vars

C6_Witness ==
  /\ pc = "done" /\ parity_ok = 1
  /\ runs = 1 /\ max_iter = 2
  /\ M >= 2
  /\ ecc_hat # code

\* C7: with max_iter >= 1 the decoder runs at most max_iter iterations, then
\* leaves the loop; without a passing parity check it returns the tentative
\* decision of iteration max_iter although a check is violated.
C7_Bounded ==
  max_iter >= 1 =>
    /\ runs <= max_iter
    /\ (pc = "iterate" /\ runs = max_iter)
         => (~ENABLED Dec_Iter /\ ENABLED Dec_Extract)
    /\ (pc = "done" /\ parity_ok = 0)
         => /\ runs = max_iter
            /\ ecc_hat = Tentative(H, LLR, v)
            /\ ~AllChecksZero(H, ecc_hat)

C7_Witness ==
  /\ pc = "done" /\ parity_ok = 0
  /\ max_iter = 2 /\ runs = 2

\* C8: after a call that ran an iteration, inf[i] = ecc[M + i] for i < K.
C8_InfoTail ==
  (pc = "done" /\ runs >= 1) =>
     \A i \in 0 .. (K - 1) : inf_hat[i] = ecc_hat[M + i]

C8_Witness ==
  /\ pc = "done" /\ runs >= 1 /\ parity_ok = 0
  /\ M >= 1 /\ K >= 2
  /\ inf_hat[0] # ecc_hat[0]
  /\ inf_hat[1] # ecc_hat[1]

RowPairs == {q \in Rows \X Rows : q[1] < q[2]}

\* the (column pair, row pair) combinations whose four entries are all 1
FourCycles(h) ==
  Cardinality({q \in ColPairs \X RowPairs :
                 /\ h[q[2][1]][q[1][1]] = 1 /\ h[q[2][2]][q[1][1]] = 1
                 /\ h[q[2][1]][q[1][2]] = 1 /\ h[q[2][2]][q[1][2]] = 1})

ExactWc(h) == \A j \in Cols : Cardinality(OnesOf(h, j)) = wc

\* C9: for H with exactly wc ones in each column, count_floop returns the
\* number of (column pair, row pair) combinations whose entries are all 1.
C9_CountFormula ==
  (pc = "countfn" /\ calls >= 1 /\ ExactWc(H)) => floop = FourCycles(H)

\* C10: count_floop never writes H, and a call repeated on the same H
\* returns the value the call before it returned.
C10_Repeatable ==
  [][(pc = "countfn" /\ calls >= 1) => (H' = H /\ floop' = floop)]_vars

\* the column k the right-block search of step j swaps with column j
RightSwapCol(x, j) == Max(ColCands(x, j - M, M))

\* C11: in generate_Gmatrix the left-block steps never write H; a right-block
\* step writes H exactly when it swaps X columns j and k, and then swaps H
\* columns j - M and k - M; no other step writes H, and H G^T = 0 holds for
\* the H left in place.
C11_SwapMirror ==
  /\ [][(pc \in {"genG", "left"}) => (H' = H)]_vars
  /\ [][(pc = "right" /\ gj < M + N) =>
         (IF RightNeedsColSwap(X, gj)
          THEN /\ H' = SwapCols(H, gj - M, RightSwapCol(X, gj) - M)
               /\ X' = Eliminate(SwapCols(X, gj, RightSwapCol(X, gj)),
                                 gj - M, gj)
          ELSE H' = H)]_vars
  /\ [][(pc = "right" /\ gj = M + N) => (H' = H)]_vars
  /\ [](pc = "count" => HGZero)

\* row 0 of H, which generate_Hmatrix never permutes, has been reordered
C11_Witness ==
  /\ pc = "count" /\ wc >= 2
  /\ H[0] # Block0[0]
  /\ HGZero
  /\ \E g \in DOMAIN G : \E j \in 0 .. (M - 1) : G[g][j] = 1

\* the symbols 0 .. E-1 whose bit b is `bit`
SymbolsWith(b, bit) == {k \in 0 .. (E - 1) : (k \div Pow2(b)) % 2 = bit}

\* the sum of pyx[k][i] over the symbols k of S
LikelihoodSum(i, S) == SumOver([k \in S |-> pyx[k][i]], S)

\* C12: for E a power of two, compute_llr_from_pyx writes each of the
\* N logE entries exactly once, and LLR[b + i logE] is the log of the sum of
\* pyx[k][i] over the symbols with bit b set divided by the sum over those
\* with bit b clear (both sums positive); for E = 2 this is
\* LLR[i] = log(pyx[1][i] / pyx[0][i]).
C12_BitLLR ==
  /\ [](pc \in {"llr", "llrdone"} =>
          /\ DOMAIN LLR = 0 .. (li * Log2Floor(E) + lb - 1)
          /\ pc = "llrdone" => DOMAIN LLR = 0 .. (N * Log2Floor(E) - 1)
          /\ \A i \in 0 .. (N - 1) : \A b \in 0 .. (Log2Floor(E) - 1) :
                (/\ b + i * Log2Floor(E) \in DOMAIN LLR
                 /\ LikelihoodSum(i, SymbolsWith(b, 1)) > 0
                 /\ LikelihoodSum(i, SymbolsWith(b, 0)) > 0)
                => LLR[b + i * Log2Floor(E)]
                     = LogRatio(LikelihoodSum(i, SymbolsWith(b, 1)),
                                LikelihoodSum(i, SymbolsWith(b, 0)))
          /\ E = 2 => \A i \in DOMAIN LLR :
                        (pyx[1][i] > 0 /\ pyx[0][i] > 0)
                        => LLR[i] = LogRatio(pyx[1][i], pyx[0][i]))
  /\ [][(pc = "llr" /\ li < N) =>
          /\ Cardinality(DOMAIN LLR') = Cardinality(DOMAIN LLR) + 1
          /\ \A x \in DOMAIN LLR : LLR'[x] = LLR[x]]_vars

C12_Witness ==
  /\ pc = "llrdone" /\ E = 4 /\ N = 2
  /\ pyx[0][0] = 0 /\ pyx[1][0] = 3 /\ pyx[2][0] = 1 /\ pyx[3][0] = 3
  /\ LLR[0] = LogRatio(6, 1) /\ LLR[1] = LogRatio(4, 3)
  /\ pyx[0][1] = 1 /\ pyx[1][1] = 1 /\ pyx[2][1] = 3 /\ pyx[3][1] = 0
  /\ LLR[2] = LogRatio(1, 4) /\ LLR[3] = LogRatio(3, 2)

\* C13: the saved H.csv has M lines and G.csv K lines of exactly N characters
\* '0' or '1' (line i, column j holding the entry [i][j]) and a newline, and
\* init_LDPC for the same (N, wc, wr) returns with H and G equal to the
\* matrices written.
C13_Persist ==
  /\ pc \in {"saved", "loaded", "crash"} =>
       /\ DOMAIN fileH = 0 .. (M - 1) /\ DOMAIN fileG = 0 .. (K - 1)
       /\ \A i \in 0 .. (M - 1) :
            /\ fileH[i].len = N + 1 /\ CharAt(fileH[i], N) = "\n"
            /\ fileH[i].ones = H_best[i]
       /\ \A i \in 0 .. (K - 1) :
            /\ fileG[i].len = N + 1 /\ CharAt(fileG[i], N) = "\n"
            /\ fileG[i].ones = G_best[i]
  /\ pc # "crash"
  /\ pc = "loaded" => (Hin = H_best /\ Gin = G_best)

\* H_best g^T = 0 over GF(2) for every row g of G_best
BestHGZero ==
  \A g \in DOMAIN G_best : \A i \in Rows :
    (Cardinality({j \in Cols : H_best[i][j] = 1 /\ G_best[g][j] = 1}) % 2) = 0

\* C14: after every trial of the search loop best_floop is the minimum of the
\* 4-cycle counts of the trials so far and never increases, and (H_best,
\* G_best) are the H left by generate_Gmatrix and the G of the earliest trial
\* with that count, so that H_best G_best^T = 0.
C14_BestPair ==
  /\ [][pc = "count" =>
          /\ floop' = FourCycles(H)
          /\ best_floop' = (IF best_floop = -1 \/ floop' < best_floop
                            THEN floop' ELSE best_floop)
          /\ best_floop # -1 => best_floop' <= best_floop
          /\ IF best_floop = -1 \/ floop' < best_floop
             THEN H_best' = H /\ G_best' = G
             ELSE H_best' = H_best /\ G_best' = G_best]_vars
  /\ [][pc # "count" =>
          (best_floop' = best_floop /\ H_best' = H_best
           /\ G_best' = G_best)]_vars
  /\ [](best_floop # -1 =>
          (best_floop = FourCycles(H_best) /\ BestHGZero))

\* the second trial counted more 4-cycles than the first, whose pair is kept
C14_Witness ==
  /\ loop = 3 /\ pc = "searched"
  /\ floop > best_floop /\ best_floop > 0
  /\ H_best # H /\ G_best # G
  /\ BestHGZero

\* the state of the decoder's state machine during and after a call
DecState ==
  IF parity_ok = 1 THEN "converged"
  ELSE IF LoopCond(iter, max_iter) THEN "iterating" ELSE "exhausted"

InDecoder == pc \in {"iterate", "done"}

\* C15: the decoder starts iterating and ends in exactly one terminal state:
\* converged at the first iteration t <= max_iter whose tentative decision
\* violates no check, or exhausted after exactly max_iter iterations none of
\* which converged; in a terminal state no message, tentative bit or
\* iteration counter changes again.
C15_StateMachine ==
  /\ [][pc = "call" =>
          (pc' = "iterate" /\ runs' = 0
           /\ DecState' = (IF max_iter' >= 1 THEN "iterating"
                           ELSE "exhausted"))]_vars
  /\ [](InDecoder =>
          /\ DecState = "iterating" =>
               /\ pc = "iterate" /\ runs < max_iter
               /\ runs >= 1 => ~AllChecksZero(H, ecc_hat)
          /\ DecState = "converged" =>
               /\ 1 <= runs /\ runs <= max_iter
               /\ ecc_hat = Tentative(H, LLR, v)
               /\ AllChecksZero(H, ecc_hat)
          /\ DecState = "exhausted" =>
               /\ runs = max_iter
               /\ runs >= 1 => ~AllChecksZero(H, ecc_hat))
  /\ [][(InDecoder /\ DecState = "iterating") =>
          (runs' = runs + 1 /\ pc' = "iterate")]_vars
  /\ [][(InDecoder /\ DecState # "iterating") =>
          (/\ DecState' = DecState
           /\ u' = u /\ v' = v /\ ecc_hat' = ecc_hat
           /\ iter' = iter /\ runs' = runs /\ parity_ok' = parity_ok
           /\ pc' = "done")]_vars
  /\ (pc = "iterate") ~> (pc = "done" /\ DecState # "iterating")

\* converged at the last permitted iteration, t = max_iter
C15_Witness ==
  /\ pc = "done" /\ DecState = "converged"
  /\ max_iter = 2 /\ runs = 2

\* C16: in every iteration the in-place check-node loops give the messages
\* v computed from LLR and the u of the end of the previous iteration alone
\* (all zero in the first iteration), and the in-place variable-node loops
\* give the u computed from the v of the completed check-node phase alone:
\* the same as computing each phase from a snapshot taken before it.
C16_Flooding ==
  [][(pc = "iterate" /\ parity_ok = 0 /\ LoopCond(iter, max_iter)) =>
       LET w1 == CheckPhase(H, LLR, [u |-> u, v |-> v], M * N)
           w2 == VarPhase(H, w1, M * N)
       IN  /\ runs = 0 => u = ZeroMsg
           /\ w1.u = u
           /\ w1.v = CheckUpdate(H, LLR, u, ZeroMsg)
           /\ w2.v = w1.v
           /\ w2.u = VarUpdate(H, ZeroMsg, w1.v)
           /\ v' = w1.v /\ u' = w2.u]_vars

\* a second iteration has run on messages that were not zero
C16_Witness ==
  /\ pc = "iterate" /\ runs = 2 /\ M >= 2
  /\ \E i \in Rows : \E j \in Cols : u[i][j] # 0 /\ v[i][j] # 0
  /\ \E i \in Rows : \E j \in Cols : u[i][j] # v[i][j]

\* m with every entry off the edges of H replaced by a foreign value
OffEdgeMarked(m) ==
  [i \in Rows |-> [j \in Cols |-> IF H[i][j] = 0 THEN 999 ELSE m[i][j]]]

\* m is zero wherever H is zero
ZeroOffEdges(m) == \A i \in Rows : \A j \in Cols : H[i][j] = 0 => m[i][j] = 0

\* C17: throughout ldpc_decode_spa, u[i][j] = 0 and v[i][j] = 0 wherever
\* H[i][j] = 0, also between the single assignments of the two update phases,
\* and what the check-node update, the variable-node update and the tentative
\* decision compute does not depend on those entries.
C17_OffEdges ==
  InDecoder =>
    /\ ZeroOffEdges(u) /\ ZeroOffEdges(v)
    /\ \A n \in 0 .. (M * N) :
         LET w1 == CheckPhase(H, LLR, [u |-> u, v |-> v], n)
             w2 == VarPhase(H, CheckPhase(H, LLR, [u |-> u, v |-> v], M * N), n)
         IN  /\ ZeroOffEdges(w1.u) /\ ZeroOffEdges(w1.v)
             /\ ZeroOffEdges(w2.u) /\ ZeroOffEdges(w2.v)
    /\ \A i \in Rows : \A j \in Cols :
         H[i][j] # 0 =>
           /\ CheckUpdate(H, LLR, OffEdgeMarked(u), OffEdgeMarked(v))[i][j]
                = CheckUpdate(H, LLR, u, v)[i][j]
           /\ VarUpdate(H, OffEdgeMarked(u), OffEdgeMarked(v))[i][j]
                = VarUpdate(H, u, v)[i][j]
    /\ Tentative(H, LLR, OffEdgeMarked(v)) = Tentative(H, LLR, v)

\* messages are flowing on the edges of an H that has zeros and ones
C17_Witness ==
  /\ pc = "iterate" /\ runs = 2 /\ M = 2 /\ N = 3
  /\ \E i \in Rows : \E j \in Cols : H[i][j] = 0
  /\ \E j \in Cols : H[0][j] = 1 /\ H[1][j] = 1 /\ u[0][j] # 0 /\ v[1][j] # 0

\* columns 0 .. c-1 of x are unit vectors with their 1 on the diagonal
UnitColumns(x, lo, hi, shift) ==
  \A j \in lo .. (hi - 1) : \A i \in Cols :
     x[i][j] = (IF i = j - shift THEN 1 ELSE 0)

\* C18: for every M x N 0/1 matrix H, rank-deficient ones included, each
\* step of both elimination phases obtains a pivot, so that on completion
\* X = [ I_M | A ; 0 | G ]: its left M columns are the identity in rows
\* 0 .. M-1 and zero in rows M .. N-1, and G is the lower-right K x N block.
C18_Pivots ==
  /\ [][(pc = "left" /\ gj < M) =>
          (LeftPivot(X, gj)[gj][gj] = 1 /\ X'[gj][gj] = 1)]_vars
  /\ [][(pc = "right" /\ gj < M + N) =>
          (RightPivot(X, gj)[gj - M][gj] = 1 /\ X'[gj - M][gj] = 1)]_vars
  /\ [](pc = "left" => UnitColumns(X, 0, gj, 0))
  /\ [](pc = "right" =>
          /\ UnitColumns(X, 0, M, 0)
          /\ UnitColumns(X, 2 * M, gj, M))
  /\ [](pc = "count" =>
          /\ UnitColumns(X, 0, M, 0)
          /\ \A i \in 0 .. (K - 1) : \A j \in Cols : G[i][j] = X[i + M][j + M])

\* completion on a rank-deficient H: a zero row and two equal rows
C18_Witness ==
  /\ pc = "count" /\ M = 3 /\ N = 4
  /\ \A j \in Cols : H[0][j] = 0
  /\ \A j \in Cols : H[1][j] = H[2][j]
  /\ \E j \in Cols : H[1][j] = 1

\* p is a permutation of 0 .. N-1
IsPermutation(p) ==
  /\ DOMAIN p = Cols
  /\ \A k \in Cols : p[k] \in Cols
  /\ \A a \in Cols : \A b \in Cols : p[a] = p[b] => a = b

\* C19: in generate_Hmatrix row i of block 0 has its ones exactly at the
\* columns i wr .. (i+1) wr - 1; for every later block b and every sequence
\* of values of rand(), perm is a permutation of 0 .. N-1 and the block is
\* written as H[block_rows b + r][k] = H[r][perm[k]].
C19_Blocks ==
  /\ [](pc \in {"shuffle", "genG"} =>
          /\ \A i \in 0 .. (block_rows - 1) : \A j \in Cols :
                H[i][j] = (IF i * wr <= j /\ j < (i + 1) * wr THEN 1 ELSE 0)
          /\ IsPermutation(perm))
  /\ [][(pc = "shuffle" /\ sj = N) =>
          /\ IsPermutation(perm)
          /\ \A r \in 0 .. (block_rows - 1) : \A k \in Cols :
                H'[block_rows * bi + r][k] = H[r][perm[k]]
          /\ \A i \in Rows : (i \div block_rows) # bi => H'[i] = H[i]]_vars

\* a later block whose rows are neither row of block 0
C19_Witness ==
  /\ pc = "genG" /\ N = 6 /\ wc = 2 /\ wr = 3
  /\ H[2] # H[0] /\ H[2] # H[1]
  /\ H[3] # H[0] /\ H[3] # H[1]
  /\ H[2][0] = 0 /\ H[2][5] = 1

\* C20: for every number s of shared rows with 2 <= s <= wc, the amount
\* count_floop adds for a column pair, factorial(s) / (2 factorial(s-2)) in
\* 32-bit int arithmetic, equals s (s-1) / 2.
C20_PairTerm ==
  (pc = "countfn" /\ calls >= 1) =>
     \A s \in 2 .. wc : PairTerm(s) = (s * (s - 1)) \div 2

\* the larger of a and b
MaxD(a, b) == IF LeqD(b, a) THEN a ELSE b

\* C21: before the division each of the sums p1 and p0 is floored at 1e-300
\* (the operand used is max(sum, 1e-300)), and every LLR written is finite.
C21_Floored ==
  pc \in {"llrdbl", "llrdbldone"} =>
     \A i \in 0 .. (N - 1) : \A b \in 0 .. (Log2Floor(E) - 1) :
        LlrIndex(b, i, Log2Floor(E)) \in DOMAIN LLR =>
           /\ \A bit \in Bit :
                 SafeP(PAccD(pyx, i, b, bit, E))
                    = MaxD(PAccD(pyx, i, b, bit, E), Eps)
           /\ LLR[LlrIndex(b, i, Log2Floor(E))].cls = "finite"

\* the value of bit j that makes check i even: the exclusive or of the hard
\* decisions (x >= 0 means 1) of x = LLR[j'] + u[i][j'] over the others
EvenParityBit(h, llr, uu, i, j) ==
  Cardinality({var \in check_node(h, i) \ {j} :
                 llr[var] + uu[i][var] >= 0}) % 2

\* C22: in the check-node update, for every check i of any degree and every
\* incident variable j, the sign of v[i][j] (positive = bit 1) favours the
\* value of bit j that makes the parity of check i even given the hard
\* decisions of the other incident variables' inputs.
C22_CheckSign ==
  [][(pc = "iterate" /\ runs' = runs + 1) =>
        \A i \in Rows : \A j \in check_node(H, i) :
           v'[i][j] # 0 =>
              ((v'[i][j] > 0) <=> (EvenParityBit(H, LLR, u, i, j) = 1))]_vars

\* column k of a and column q of b hold the same entries
SameCol(a, k, b, q) == \A i \in Rows : a[i][k] = b[i][q]

\* the candidate permutation: the r-th column of a with given entries is
\* sent to the r-th column of b with those entries (N where b has none)
ColMatch(a, b) ==
  [k \in Cols |->
     LET same == {q \in Cols : SameCol(a, k, b, q)}
         r == Cardinality({q \in 0 .. (k - 1) : SameCol(a, k, a, q)})
     IN  IF r < Cardinality(same) THEN Nth(same, r) ELSE N]

\* a is b with its columns rearranged by a permutation p of 0 .. N-1
ColPermuted(a, b) ==
  LET p == ColMatch(a, b)
  IN  /\ IsPermutation(p)
      /\ \A i \in Rows : \A k \in Cols : a[i][k] = b[i][p[k]]

RowWeight(h, i) == Cardinality({k \in Cols : h[i][k] # 0})

ColWeight(h, k) == Cardinality({i \in Rows : h[i][k] # 0})

\* C23: generate_Gmatrix changes H only by rearranging its columns: H is H
\* on entry with its columns permuted by a permutation of 0 .. N-1, so every
\* row weight, the multiset of column weights and (where every column has
\* the wc ones that make it determinate) the value of count_floop are those
\* of H on entry.
C23_ColumnsOnly ==
  pc \in {"left", "right"} =>
     /\ ColPermuted(H, H_entry)
     /\ \A i \in Rows : RowWeight(H, i) = RowWeight(H_entry, i)
     /\ \A w \in 0 .. M :
           Cardinality({k \in Cols : ColWeight(H, k) = w})
              = Cardinality({k \in Cols : ColWeight(H_entry, k) = w})
     /\ Unfilled(H_entry) = {} => count_floop(H) = count_floop(H_entry)

\* the call is about to return with the columns of a regular H reordered
C23_Witness ==
  /\ pc = "right" /\ gj = M + N
  /\ wc = 2 /\ M = 3 /\ Unfilled(H_entry) = {}
  /\ H # H_entry
  /\ \E fl \in count_floop(H) : fl > 0

\* C24: called with max_iter = 0, ldpc_decode_spa performs no iteration and
\* no tentative decision: ecc stays as the caller supplied it, inf[i] is the
\* caller-supplied ecc[N-K+i] for i in 0 .. K-1, and LLR and H are unchanged.
C24_ZeroIter ==
  /\ [][(pc = "call") => (LLR' = LLR /\ H' = H)]_vars
  /\ [][(pc = "iterate" /\ max_iter = 0) =>
          /\ pc' = "done"
          /\ runs = 0 /\ runs' = 0
          /\ ecc_hat' = ecc_hat
          /\ inf_hat' = [i \in 0 .. (K - 1) |-> ecc_hat[N - K + i]]
          /\ LLR' = LLR /\ H' = H]_vars

\* a return with max_iter = 0 whose caller-supplied ecc tells the tail from
\* the head
C24_Witness ==
  /\ pc = "done" /\ max_iter = 0 /\ runs = 0
  /\ K >= 1 /\ N - K >= 1
  /\ ecc_hat[0] # ecc_hat[N - K]
  /\ inf_hat[0] = ecc_hat[N - K]
  /\ \E j \in Cols : LLR[j] < 0 /\ ecc_hat[j] = 1
====
